---- MODULE Spec2Model ----
(***************************************************************************)
(* Model of the proactive task manager: scripts/task_manager_phase1.py     *)
(* (mark-progress, mark-blocked, unblock-task, log-time, create-recurring, *)
(* next-recurring, show-velocity) and scripts/task_manager_phase2.py       *)
(* (mark-progress, log-time, mark-blocked, health-check, all with the      *)
(* write-ahead log).  Both scripts work on the same data/tasks.json.       *)
(*                                                                         *)
(* A task is a Python dict: here a function whose DOMAIN is the set of     *)
(* keys present, so "key absent", "key is None" and "key has a value" stay *)
(* distinct.  Time is counted in days (one WAL file per day).  The keys    *)
(* title, priority, notes, created_at and updated_at are written but never *)
(* read by any decision of the code and are left out, as are the           *)
(* SESSION-STATE.md and working-buffer writers that run after the save.    *)
(*                                                                         *)
(* One command line invocation is one process p.  A handler is modelled by *)
(* its outcome on the blob it loads: an error exit, or the ordered list of *)
(* file effects it performs (WAL appends and the store save).  A run       *)
(* performs them all, or is killed between two of them, or its save fails. *)
(* The WAL is append-only and never read back: wal[p] holds the lines      *)
(* invocation p has appended, and is dropped when the process exits.       *)
(***************************************************************************)
EXTENDS Integers, Sequences, FiniteSets, TLC

\* ------------------------------------------------------------------ bounds
\* Invocations in one behaviour, and days that pass.
MaxOps == 2
MaxNow == 1

\* ------------------------------------------------------------------ inputs
Procs == {1}
None == "<None>"
MissingId == 0
GoalIds == {"g1"}
GoalInputs == {"g1", "gX"}
ProgressInputs == {-1, 0, 50, 100, 101}
MinutesInputs == {-11, 11}
ReasonInputs == {"r1"}
RecurringInputs == {"daily", "after_completion"}
EstimateInputs == {None, "0", "1"}

VARIABLES store, wal, pc, cur, events, result, now, ops

vars == <<store, wal, pc, cur, events, result, now, ops>>

\* ------------------------------------------------------- dict primitives
Has(t, k) == k \in DOMAIN t
Get(t, k, d) == IF k \in DOMAIN t THEN t[k] ELSE d
Put(t, k, v) == [x \in (DOMAIN t) \cup {k} |-> IF x = k THEN v ELSE t[x]]
Pop(t, k) == [x \in (DOMAIN t) \ {k} |-> t[x]]

\* ------------------------------------------------------------ the store
\* The blob data/tasks.json: "ok" a mapping with goals and tasks, "absent"
\* no file, "corrupt" not parseable as JSON (an empty or partly written
\* file), "malformed" JSON that is not a mapping or has no "tasks".
Blob(kind, goals, tasks) == [kind |-> kind, goals |-> goals, tasks |-> tasks]
EmptyData == [goals |-> {}, tasks |-> <<>>]

\* phase 1 load_data: every unreadable blob becomes the empty default.
P1_load_data(blob) ==
  IF blob.kind = "ok"
    THEN [err |-> FALSE, data |-> [goals |-> blob.goals, tasks |-> blob.tasks]]
    ELSE [err |-> FALSE, data |-> EmptyData]

\* phase 2 load_data: only the absent file is handled; json.load raises on
\* a corrupt blob, and data["tasks"] raises on a malformed one.
P2_load_data(blob) ==
  IF blob.kind = "ok"
    THEN [err |-> FALSE, data |-> [goals |-> blob.goals, tasks |-> blob.tasks]]
    ELSE IF blob.kind = "absent"
      THEN [err |-> FALSE, data |-> EmptyData]
      ELSE [err |-> TRUE, data |-> EmptyData]

\* find_task_by_id: index of the first task with that id, 0 for None.
find_task_by_id(data, task_id) ==
  LET hits == {i \in 1..Len(data.tasks) : data.tasks[i]["id"] = task_id}
  IN IF hits = {} THEN 0 ELSE CHOOSE i \in hits : \A j \in hits : i <= j

ReplaceTask(data, i, t) == [data EXCEPT !.tasks = [data.tasks EXCEPT ![i] = t]]

\* log_to_wal: one line appended to the WAL file of the current day.
log_to_wal(w, event_type, task_id) ==
  Append(w, [event_type |-> event_type, task_id |-> task_id])

\* ------------------------------------------------------ handler outcomes
\* What a handler does on the blob it loads: an error exit (err # "ok", no
\* file written), or its file effects in the order of the code.
Exit(code) == [err |-> code, effects |-> <<>>]
Proceed(effects) == [err |-> "ok", effects |-> effects]

WalRec(event_type, task_id) == [event_type |-> event_type, task_id |-> task_id]
WalEffect(event_type, task_id) ==
  [kind |-> "wal", rec |-> WalRec(event_type, task_id), data |-> EmptyData]
SaveEffect(data) == [kind |-> "save", rec |-> WalRec("", MissingId), data |-> data]

\* round(x, 1) of x = 100 * num / den, kept in tenths of a percent
\* (round half to even, den > 0).
RoundTenths(num, den) ==
  LET n == 1000 * num
      q == n \div den
      r == n - q * den
  IN IF 2 * r < den THEN q
     ELSE IF 2 * r > den THEN q + 1
     ELSE IF q % 2 = 0 THEN q ELSE q + 1

\* ------------------------------------------------------- phase 1 handlers
\* Mutant: the pending -> in_progress edge taken only below 100.
P1_progress_update_no_edge_at_100(t, progress, n) ==
  LET t1 == Put(t, "progress", progress)
  IN IF progress = 100 /\ t1["status"] = "in_progress"
       THEN Put(Put(t1, "status", "completed"), "completed_at", n)
       ELSE IF progress > 0 /\ progress < 100 /\ t1["status"] = "pending"
         THEN Put(t1, "status", "in_progress")
         ELSE t1

\* mark_progress, lines 81-88: the mutation of the task found.
P1_progress_update(t, progress, n) ==
  LET t1 == Put(t, "progress", progress)
  IN IF progress = 100 /\ t1["status"] = "in_progress"
       THEN Put(Put(t1, "status", "completed"), "completed_at", n)
       ELSE IF progress > 0 /\ t1["status"] = "pending"
         THEN Put(t1, "status", "in_progress")
         ELSE t1

\* Mutant: the range check made after the task is updated and saved.
P1_mark_progress_late_check(blob, task_id, progress, n) ==
  LET data == P1_load_data(blob).data
      i == find_task_by_id(data, task_id)
      saved == <<SaveEffect(
                 ReplaceTask(data, i, P1_progress_update(data.tasks[i], progress, n)))>>
  IN IF i = 0 THEN Exit("TaskNotFound")
     ELSE IF ~(0 <= progress /\ progress <= 100)
       THEN [err |-> "InvalidArgument", effects |-> saved]
     ELSE Proceed(saved)

P1_mark_progress(blob, task_id, progress, n) ==
  LET data == P1_load_data(blob).data
      i == find_task_by_id(data, task_id)
  IN IF i = 0 THEN Exit("TaskNotFound")
     ELSE IF ~(0 <= progress /\ progress <= 100) THEN Exit("InvalidArgument")
     ELSE Proceed(<<SaveEffect(
            ReplaceTask(data, i, P1_progress_update(data.tasks[i], progress, n)))>>)

P1_mark_blocked(blob, task_id, reason, n) ==
  LET data == P1_load_data(blob).data
      i == find_task_by_id(data, task_id)
  IN IF i = 0 THEN Exit("TaskNotFound")
     ELSE Proceed(<<SaveEffect(ReplaceTask(data, i,
            Put(Put(data.tasks[i], "status", "blocked"), "blocked_reason", reason)))>>)

P1_unblock_task(blob, task_id, n) ==
  LET data == P1_load_data(blob).data
      i == find_task_by_id(data, task_id)
  IN IF i = 0 THEN Exit("TaskNotFound")
     ELSE Proceed(<<SaveEffect(ReplaceTask(data, i,
            Put(Put(data.tasks[i], "status", "pending"), "blocked_reason", None)))>>)

\* log_time, lines 137-149.
P1_time_update(t, minutes) ==
  LET actual == Get(t, "actual_minutes", 0) + minutes
      t1 == Put(t, "actual_minutes", actual)
  IN IF Has(t1, "estimate_minutes")
       THEN Put(t1, "time_variance_percent",
                IF t1["estimate_minutes"] > 0
                  THEN RoundTenths(actual - t1["estimate_minutes"], t1["estimate_minutes"])
                  ELSE 0)
       ELSE t1

P1_log_time(blob, task_id, minutes, n) ==
  LET data == P1_load_data(blob).data
      i == find_task_by_id(data, task_id)
  IN IF i = 0 THEN Exit("TaskNotFound")
     ELSE Proceed(<<SaveEffect(
            ReplaceTask(data, i, P1_time_update(data.tasks[i], minutes)))>>)

\* create_recurring: estimate is the --estimate string, None when not given
\* ("0" is a non-empty string, so it is kept as estimate_minutes 0).
EstimateValue(estimate) == IF estimate = "0" THEN 0 ELSE 1

P1_create_recurring(blob, goal_id, recurring, estimate, newid, n) ==
  LET data == P1_load_data(blob).data
      task == [id |-> newid, goal_id |-> goal_id, status |-> "pending",
               progress |-> 0, recurring |-> recurring, next_due_at |-> n]
      task1 == IF estimate # None /\ estimate # ""
                 THEN Put(task, "estimate_minutes", EstimateValue(estimate))
                 ELSE task
  IN IF goal_id \notin data.goals THEN Exit("GoalNotFound")
     ELSE Proceed(<<SaveEffect([data EXCEPT !.tasks = Append(data.tasks, task1)])>>)

\* Mutant: a month counted as 31 days.
NextDue_month_of_31(recurring, n) ==
  IF recurring = "daily" THEN n + 1
  ELSE IF recurring = "weekly" THEN n + 7
  ELSE IF recurring = "monthly" THEN n + 31
  ELSE n

\* next_recurring, lines 229-238: the due date of the next occurrence.
NextDue(recurring, n) ==
  IF recurring = "daily" THEN n + 1
  ELSE IF recurring = "weekly" THEN n + 7
  ELSE IF recurring = "monthly" THEN n + 30
  ELSE n

PopAll(t, keys) == [x \in (DOMAIN t) \ keys |-> t[x]]

\* next_recurring, lines 216-244: the completed task and its successor.
CompletedOriginal(t, n) ==
  Put(Put(Put(t, "status", "completed"), "completed_at", n), "progress", 100)

\* Mutant: the successor keeps the progress of the original.
Successor_keeps_progress(task, newid, n) ==
  LET c1 == Put(Put(Put(task, "id", newid), "status", "pending"), "actual_minutes", 0)
      c2 == Put(c1, "next_due_at", NextDue(task["recurring"], n))
  IN PopAll(c2, {"completed_at", "last_error", "retry_count", "blocked_reason"})

Successor(task, newid, n) ==
  LET c1 == Put(Put(Put(Put(task, "id", newid), "status", "pending"),
                    "progress", 0), "actual_minutes", 0)
      c2 == Put(c1, "next_due_at", NextDue(task["recurring"], n))
  IN PopAll(c2, {"completed_at", "last_error", "retry_count", "blocked_reason"})

\* Mutant: the successor takes the place of the original in the list.
P1_next_recurring_in_place(blob, task_id, newid, n) ==
  LET data == P1_load_data(blob).data
      i == find_task_by_id(data, task_id)
  IN IF i = 0 THEN Exit("TaskNotFound")
     ELSE IF ~Has(data.tasks[i], "recurring") \/ data.tasks[i]["recurring"] = "none"
       THEN Exit("NotRecurring")
     ELSE IF Get(data.tasks[i], "progress", 0) < 100 THEN Exit("IncompleteTask")
     ELSE LET task == CompletedOriginal(data.tasks[i], n)
          IN Proceed(<<SaveEffect([data EXCEPT
               !.tasks = [data.tasks EXCEPT ![i] = Successor(task, newid, n)]])>>)

P1_next_recurring(blob, task_id, newid, n) ==
  LET data == P1_load_data(blob).data
      i == find_task_by_id(data, task_id)
  IN IF i = 0 THEN Exit("TaskNotFound")
     ELSE IF ~Has(data.tasks[i], "recurring") \/ data.tasks[i]["recurring"] = "none"
       THEN Exit("NotRecurring")
     ELSE IF Get(data.tasks[i], "progress", 0) < 100 THEN Exit("IncompleteTask")
     ELSE LET task == CompletedOriginal(data.tasks[i], n)
          IN Proceed(<<SaveEffect([data EXCEPT
               !.tasks = Append([data.tasks EXCEPT ![i] = task],
                                Successor(task, newid, n))])>>)

\* round(x, ndigits) of x = num / den, in units of the last digit kept: num
\* carries the factor 10^ndigits (round half to even, num >= 0, den > 0).
RoundDiv(num, den) ==
  LET q == num \div den
      r == num - q * den
  IN IF 2 * r < den THEN q
     ELSE IF 2 * r > den THEN q + 1
     ELSE IF q % 2 = 0 THEN q ELSE q + 1

\* What show_velocity prints: the counts, velocity_tasks_per_day in
\* hundredths and estimated_days_to_completion in tenths.
NoOut == [completed |-> 0, remaining |-> 0, days_tracked |-> 0,
          velocity_tasks_per_day |-> 0, estimated_days_to_completion |-> 0]

\* Mutant: velocity counts only the completed tasks that carry a date.
show_velocity_counts_dated(blob, goal_id) ==
  LET data == P1_load_data(blob).data
      tasks == data.tasks
      mine == {i \in 1..Len(tasks) : tasks[i]["goal_id"] = goal_id}
      completed == {i \in mine : tasks[i]["status"] = "completed"}
      by_day == {tasks[i]["completed_at"] : i \in {j \in completed : Has(tasks[j], "completed_at")}}
      remaining == {i \in mine : tasks[i]["status"] # "completed"}
      c == Cardinality({j \in completed : Has(tasks[j], "completed_at")})
      d == Cardinality(by_day)
      r == Cardinality(remaining)
  IN IF goal_id \notin data.goals
       THEN [err |-> "GoalNotFound", effects |-> <<>>, out |-> NoOut]
     ELSE IF \E i \in 1..Len(tasks) : ~Has(tasks[i], "goal_id") \/ ~Has(tasks[i], "status")
       THEN [err |-> "KeyError", effects |-> <<>>, out |-> NoOut]
     ELSE [err |-> "ok", effects |-> <<>>,
           out |-> [completed |-> c, remaining |-> r, days_tracked |-> d,
                    velocity_tasks_per_day |-> IF d > 0 THEN RoundDiv(100 * c, d) ELSE 0,
                    estimated_days_to_completion |->
                      IF d > 0 THEN RoundDiv(10 * r * d, c) ELSE 0]]

\* show_velocity, lines 255-294: velocity = len(completed) / len(by_day),
\* days_to_completion = len(remaining) / velocity = len(remaining) *
\* len(by_day) / len(completed); both are rounded when printed.  It writes
\* no file.
show_velocity(blob, goal_id) ==
  LET data == P1_load_data(blob).data
      tasks == data.tasks
      mine == {i \in 1..Len(tasks) : tasks[i]["goal_id"] = goal_id}
      completed == {i \in mine : tasks[i]["status"] = "completed"}
      by_day == {tasks[i]["completed_at"] : i \in {j \in completed : Has(tasks[j], "completed_at")}}
      remaining == {i \in mine : tasks[i]["status"] # "completed"}
      c == Cardinality(completed)
      d == Cardinality(by_day)
      r == Cardinality(remaining)
  IN IF goal_id \notin data.goals
       THEN [err |-> "GoalNotFound", effects |-> <<>>, out |-> NoOut]
     ELSE IF \E i \in 1..Len(tasks) : ~Has(tasks[i], "goal_id") \/ ~Has(tasks[i], "status")
       THEN [err |-> "KeyError", effects |-> <<>>, out |-> NoOut]
     ELSE [err |-> "ok", effects |-> <<>>,
           out |-> [completed |-> c, remaining |-> r, days_tracked |-> d,
                    velocity_tasks_per_day |-> IF d > 0 THEN RoundDiv(100 * c, d) ELSE 0,
                    estimated_days_to_completion |->
                      IF d > 0 THEN RoundDiv(10 * r * d, c) ELSE 0]]

\* ------------------------------------------------------- phase 2 handlers
\* mark_progress, lines 177-190 (notes left out).
P2_progress_update(t, progress) ==
  LET t1 == Put(t, "progress", progress)
  IN IF progress >= 100 /\ Get(t1, "status", None) # "completed"
       THEN Put(t1, "status", "in_progress")
       ELSE IF progress > 0 /\ Get(t1, "status", None) = "pending"
         THEN Put(t1, "status", "in_progress")
         ELSE t1

P2_mark_progress(blob, task_id, progress, n) ==
  LET ld == P2_load_data(blob)
      data == ld.data
      i == find_task_by_id(data, task_id)
  IN IF ld.err THEN Exit("LoadError")
     ELSE IF i = 0 THEN Exit("TaskNotFound")
     ELSE Proceed(<<WalEffect("PROGRESS_CHANGE", task_id),
                    SaveEffect(ReplaceTask(data, i,
                      P2_progress_update(data.tasks[i], progress)))>>)

\* Mutant: a total that would go below zero is stored as zero.
P2_time_update_floor_at_zero(t, minutes) ==
  LET sum == Get(t, "actual_minutes", 0) + minutes
      new_actual == IF sum < 0 THEN 0 ELSE sum
      t1 == Put(t, "actual_minutes", new_actual)
  IN IF Get(t1, "status", None) = "pending" /\ new_actual > 0
       THEN Put(t1, "status", "in_progress")
       ELSE t1

\* log_time, lines 219-243.
P2_time_update(t, minutes) ==
  LET new_actual == Get(t, "actual_minutes", 0) + minutes
      t1 == Put(t, "actual_minutes", new_actual)
  IN IF Get(t1, "status", None) = "pending" /\ new_actual > 0
       THEN Put(t1, "status", "in_progress")
       ELSE t1

\* Mutant: the WAL line of log_time carries the event type of mark_progress.
P2_log_time_wrong_event(blob, task_id, minutes, n) ==
  LET ld == P2_load_data(blob)
      data == ld.data
      i == find_task_by_id(data, task_id)
  IN IF ld.err THEN Exit("LoadError")
     ELSE IF i = 0 THEN Exit("TaskNotFound")
     ELSE Proceed(<<WalEffect("PROGRESS_CHANGE", task_id),
                    SaveEffect(ReplaceTask(data, i,
                      P2_time_update(data.tasks[i], minutes)))>>)

P2_log_time(blob, task_id, minutes, n) ==
  LET ld == P2_load_data(blob)
      data == ld.data
      i == find_task_by_id(data, task_id)
  IN IF ld.err THEN Exit("LoadError")
     ELSE IF i = 0 THEN Exit("TaskNotFound")
     ELSE Proceed(<<WalEffect("TIME_LOG", task_id),
                    SaveEffect(ReplaceTask(data, i,
                      P2_time_update(data.tasks[i], minutes)))>>)

P2_mark_blocked(blob, task_id, reason, n) ==
  LET ld == P2_load_data(blob)
      data == ld.data
      i == find_task_by_id(data, task_id)
  IN IF ld.err THEN Exit("LoadError")
     ELSE IF i = 0 THEN Exit("TaskNotFound")
     ELSE Proceed(<<WalEffect("STATUS_CHANGE", task_id),
                    SaveEffect(ReplaceTask(data, i,
                      Put(Put(data.tasks[i], "status", "blocked"),
                          "blocked_reason", reason)))>>)

\* ---------------------------------------------------------- health check
\* Python truth of the string-valued keys: absent, None and "" are false.
Truthy(t, k) == Has(t, k) /\ t[k] # None /\ t[k] # ""

\* One task through checks 1 to 5: [task, issues, fixes, err].  sameTick
\* says whether the clock reading of check 5 (line 358) equals that of
\* check 3 (line 347).  Check 5 compares strings: a stored stamp is
\* isoformat() + "Z", the reading is isoformat(), so a stamp of the same
\* instant is the greater string; two stamps of the same day written by
\* different runs are in clock order.
\* Mutant: check 5 takes a stamp that is not in the future for a bad date.
HealthTask_not_future_is_bad(t, n, sameTick) ==
  LET id == Get(t, "id", MissingId)
      c1 == Truthy(t, "recurring") /\ ~Truthy(t, "goal_id")
      t1 == IF c1 THEN Put(t, "recurring", None) ELSE t
      c2 == Get(t1, "status", None) = "completed" /\ Get(t1, "progress", 100) < 100
      t2 == IF c2 THEN Put(t1, "progress", 100) ELSE t1
      c3 == Get(t2, "status", None) = "completed" /\ ~Has(t2, "completed_at")
      t3 == IF c3 THEN Put(t2, "completed_at", n) ELSE t2
      c4 == Get(t3, "actual_minutes", 0) > Get(t3, "estimate_minutes", 1) * 10
      zero == c4 /\ Get(t3, "estimate_minutes", 1) = 0
      c5 == /\ Get(t3, "status", None) = "completed"
            /\ \/ t3["completed_at"] >= n
               \/ c3 /\ sameTick
      t5 == IF c5 THEN Put(t3, "completed_at", n) ELSE t3
  IN [task |-> t5,
      err |-> zero,
      issues |-> (IF c1 THEN <<(<<"orphaned", id>>)>> ELSE <<>>)
              \o (IF c2 THEN <<(<<"impossible", id>>)>> ELSE <<>>)
              \o (IF c3 THEN <<(<<"no_completed_at", id>>)>> ELSE <<>>)
              \o (IF c4 THEN <<(<<"time_anomaly", id>>)>> ELSE <<>>)
              \o (IF c5 THEN <<(<<"bad_date", id>>)>> ELSE <<>>),
      fixes |-> (IF c1 THEN <<(<<"orphaned", id>>)>> ELSE <<>>)
              \o (IF c2 THEN <<(<<"impossible", id>>)>> ELSE <<>>)
              \o (IF c3 THEN <<(<<"no_completed_at", id>>)>> ELSE <<>>)
              \o (IF c5 THEN <<(<<"bad_date", id>>)>> ELSE <<>>)]

\* Mutant: check 2 reports the impossible state without listing a fix.
HealthTask_impossible_unlisted(t, n, sameTick) ==
  LET id == Get(t, "id", MissingId)
      c1 == Truthy(t, "recurring") /\ ~Truthy(t, "goal_id")
      t1 == IF c1 THEN Put(t, "recurring", None) ELSE t
      c2 == Get(t1, "status", None) = "completed" /\ Get(t1, "progress", 100) < 100
      t2 == IF c2 THEN Put(t1, "progress", 100) ELSE t1
      c3 == Get(t2, "status", None) = "completed" /\ ~Has(t2, "completed_at")
      t3 == IF c3 THEN Put(t2, "completed_at", n) ELSE t2
      c4 == Get(t3, "actual_minutes", 0) > Get(t3, "estimate_minutes", 1) * 10
      zero == c4 /\ Get(t3, "estimate_minutes", 1) = 0
      c5 == /\ Get(t3, "status", None) = "completed"
            /\ \/ t3["completed_at"] > n
               \/ c3 /\ sameTick
      t5 == IF c5 THEN Put(t3, "completed_at", n) ELSE t3
  IN [task |-> t5,
      err |-> zero,
      issues |-> (IF c1 THEN <<(<<"orphaned", id>>)>> ELSE <<>>)
              \o (IF c2 THEN <<(<<"impossible", id>>)>> ELSE <<>>)
              \o (IF c3 THEN <<(<<"no_completed_at", id>>)>> ELSE <<>>)
              \o (IF c4 THEN <<(<<"time_anomaly", id>>)>> ELSE <<>>)
              \o (IF c5 THEN <<(<<"bad_date", id>>)>> ELSE <<>>),
      fixes |-> (IF c1 THEN <<(<<"orphaned", id>>)>> ELSE <<>>)
              \o (IF c3 THEN <<(<<"no_completed_at", id>>)>> ELSE <<>>)
              \o (IF c5 THEN <<(<<"bad_date", id>>)>> ELSE <<>>)]

HealthTask(t, n, sameTick) ==
  LET id == Get(t, "id", MissingId)
      c1 == Truthy(t, "recurring") /\ ~Truthy(t, "goal_id")
      t1 == IF c1 THEN Put(t, "recurring", None) ELSE t
      c2 == Get(t1, "status", None) = "completed" /\ Get(t1, "progress", 100) < 100
      t2 == IF c2 THEN Put(t1, "progress", 100) ELSE t1
      c3 == Get(t2, "status", None) = "completed" /\ ~Has(t2, "completed_at")
      t3 == IF c3 THEN Put(t2, "completed_at", n) ELSE t2
      c4 == Get(t3, "actual_minutes", 0) > Get(t3, "estimate_minutes", 1) * 10
      zero == c4 /\ Get(t3, "estimate_minutes", 1) = 0
      c5 == /\ Get(t3, "status", None) = "completed"
            /\ \/ t3["completed_at"] > n
               \/ c3 /\ sameTick
      t5 == IF c5 THEN Put(t3, "completed_at", n) ELSE t3
  IN [task |-> t5,
      err |-> zero,
      issues |-> (IF c1 THEN <<(<<"orphaned", id>>)>> ELSE <<>>)
              \o (IF c2 THEN <<(<<"impossible", id>>)>> ELSE <<>>)
              \o (IF c3 THEN <<(<<"no_completed_at", id>>)>> ELSE <<>>)
              \o (IF c4 THEN <<(<<"time_anomaly", id>>)>> ELSE <<>>)
              \o (IF c5 THEN <<(<<"bad_date", id>>)>> ELSE <<>>),
      fixes |-> (IF c1 THEN <<(<<"orphaned", id>>)>> ELSE <<>>)
              \o (IF c2 THEN <<(<<"impossible", id>>)>> ELSE <<>>)
              \o (IF c3 THEN <<(<<"no_completed_at", id>>)>> ELSE <<>>)
              \o (IF c5 THEN <<(<<"bad_date", id>>)>> ELSE <<>>)]

\* The pass over data["tasks"], lines 329-361, from task k on; acc holds the
\* tasks as fixed so far and the two lists.  The division of line 352 raises
\* ZeroDivisionError and ends the run there.
HealthStep(acc, h, k) ==
  [tasks |-> [acc.tasks EXCEPT ![k] = h.task], err |-> FALSE,
   issues |-> acc.issues \o h.issues, fixes |-> acc.fixes \o h.fixes]

RECURSIVE HealthPass(_, _, _, _)
HealthPass(acc, k, n, sameTick) ==
  IF k > Len(acc.tasks) THEN acc
  ELSE LET h == HealthTask(acc.tasks[k], n, sameTick)
       IN IF h.err THEN [acc EXCEPT !.err = TRUE]
          ELSE HealthPass(HealthStep(acc, h, k), k + 1, n, sameTick)

\* health_check, lines 325-372: the pass, the save when there are fixes,
\* then the HEALTH_CHECK line.
health_check(blob, n, sameTick) ==
  LET ld == P2_load_data(blob)
      pass == HealthPass([tasks |-> ld.data.tasks, err |-> FALSE,
                          issues |-> <<>>, fixes |-> <<>>], 1, n, sameTick)
  IN IF ld.err THEN [err |-> "LoadError", effects |-> <<>>, issues |-> <<>>, fixes |-> <<>>]
     ELSE IF pass.err
       THEN [err |-> "ZeroDivisionError", effects |-> <<>>, issues |-> <<>>, fixes |-> <<>>]
     ELSE [err |-> "ok",
           effects |-> (IF pass.fixes # <<>>
                          THEN <<SaveEffect([ld.data EXCEPT !.tasks = pass.tasks])>>
                          ELSE <<>>)
                       \o <<WalEffect("HEALTH_CHECK", MissingId)>>,
           issues |-> pass.issues, fixes |-> pass.fixes]

\* ------------------------------------------------------------ initial state
Goal1Task(fields) == [id |-> 1, goal_id |-> "g1"] @@ fields

\* Stores written by the base task manager, every task within the data
\* model's invariants.
InitTasks ==
  { Goal1Task([status |-> "pending", progress |-> 0]),
    Goal1Task([status |-> "in_progress", progress |-> 50]),
    Goal1Task([status |-> "blocked", progress |-> 50, blocked_reason |-> "r1"]),
    Goal1Task([status |-> "completed", progress |-> 100, completed_at |-> 0]),
    Goal1Task([status |-> "pending", progress |-> 0, recurring |-> "none"]),
    Goal1Task([status |-> "pending", progress |-> 0, recurring |-> "daily",
               next_due_at |-> 0]) }

InitStores ==
  { Blob("ok", GoalIds, <<t>>) : t \in InitTasks }
    \cup { Blob("ok", GoalIds, <<>>), Blob("absent", {}, <<>>),
           Blob("corrupt", {}, <<>>), Blob("malformed", {}, <<>>) }

NoCall == [op |-> "none", task_id |-> MissingId, num |-> 0, str |-> "",
           pre |-> Blob("absent", {}, <<>>), issues |-> <<>>, fixes |-> <<>>,
           out |-> NoOut]

Init ==
  /\ store \in InitStores
  /\ wal = [p \in Procs |-> <<>>]
  /\ pc = [p \in Procs |-> "idle"]
  /\ cur = [p \in Procs |-> NoCall]
  /\ events = [p \in Procs |-> <<>>]
  /\ result = [p \in Procs |-> "none"]
  /\ now = 0
  /\ ops = 0

\* ------------------------------------------------------------------ steps
Idle == \A q \in Procs : pc[q] = "idle"
TaskIdInputs == 0..Len(store.tasks)
Faults == {"none", "killed", "open_failed", "truncated"}

\* The invocation as the process sees it: handler, arguments and the blob
\* it loaded.
Call(op, task_id, num, str) ==
  [op |-> op, task_id |-> task_id, num |-> num, str |-> str,
   pre |-> store, issues |-> <<>>, fixes |-> <<>>, out |-> NoOut]

\* save_data: the blob is replaced by the whole data.
save_data(data) == Blob("ok", data.goals, data.tasks)

\* The first k file effects of a handler, in order.
RECURSIVE Perform(_, _, _, _)
Perform(blob, w, effects, k) ==
  IF k = 0 \/ effects = <<>> THEN [store |-> blob, wal |-> w]
  ELSE LET e == Head(effects)
       IN IF e.kind = "wal"
            THEN Perform(blob, log_to_wal(w, e.rec.event_type, e.rec.task_id),
                         Tail(effects), k - 1)
            ELSE Perform(save_data(e.data), w, Tail(effects), k - 1)

\* One invocation.  It exits with the handler's error, or performs the
\* handler's file effects: all of them (fault "none"), or the first k and
\* then it is killed before the next ("killed"), or the next is a save that
\* raises: open(DATA_FILE, 'w') fails and the blob is untouched
\* ("open_failed"), or open has truncated the file and json.dump fails
\* before the document is complete ("truncated").
Outcome(p, call, plan, k, fault) ==
  /\ IF k = Len(plan.effects)
       THEN fault = "none"
       ELSE /\ fault # "none"
            /\ fault \in {"open_failed", "truncated"} => plan.effects[k + 1].kind = "save"
  /\ LET done == Perform(store, <<>>, plan.effects, k)
     IN /\ store' = IF fault = "truncated" THEN Blob("corrupt", {}, <<>>) ELSE done.store
        /\ wal' = [wal EXCEPT ![p] = done.wal]
  /\ events' = [events EXCEPT ![p] =
                  [i \in 1..k |-> plan.effects[i].kind]
                    \o (IF fault \in {"open_failed", "truncated"}
                          THEN <<"save_failed">> ELSE <<>>)]
  /\ result' = [result EXCEPT ![p] =
                  IF plan.err # "ok" THEN plan.err
                  ELSE IF fault = "none" THEN "ok"
                  ELSE IF fault = "killed" THEN "interrupted"
                  ELSE "StoreIOFailure"]
  /\ pc' = [pc EXCEPT ![p] = "done"]
  /\ cur' = [cur EXCEPT ![p] = call]
  /\ UNCHANGED now

Run(p, call, plan) ==
  /\ Idle
  /\ ops < MaxOps
  /\ ops' = ops + 1
  /\ \E k \in 0..Len(plan.effects), fault \in Faults : Outcome(p, call, plan, k, fault)

SetProgress1(p, task_id, progress) ==
  Run(p, Call("P1_mark_progress", task_id, progress, ""),
      P1_mark_progress(store, task_id, progress, now))

SetProgress2(p, task_id, progress) ==
  Run(p, Call("P2_mark_progress", task_id, progress, ""),
      P2_mark_progress(store, task_id, progress, now))

LogTime1(p, task_id, minutes) ==
  Run(p, Call("P1_log_time", task_id, minutes, ""),
      P1_log_time(store, task_id, minutes, now))

LogTime2(p, task_id, minutes) ==
  Run(p, Call("P2_log_time", task_id, minutes, ""),
      P2_log_time(store, task_id, minutes, now))

MarkBlocked1(p, task_id, reason) ==
  Run(p, Call("P1_mark_blocked", task_id, 0, reason),
      P1_mark_blocked(store, task_id, reason, now))

MarkBlocked2(p, task_id, reason) ==
  Run(p, Call("P2_mark_blocked", task_id, 0, reason),
      P2_mark_blocked(store, task_id, reason, now))

Unblock(p, task_id) ==
  Run(p, Call("P1_unblock_task", task_id, 0, ""),
      P1_unblock_task(store, task_id, now))

\* generate_id yields an id no task of the store has.
NewId(blob) == Len(blob.tasks) + 1

CreateRecurring(p, goal_id, recurring, estimate) ==
  Run(p, Call("P1_create_recurring", NewId(store), 0, goal_id),
      P1_create_recurring(store, goal_id, recurring, estimate, NewId(store), now))

AdvanceRecurring(p, task_id) ==
  Run(p, Call("P1_next_recurring", task_id, NewId(store), ""),
      P1_next_recurring(store, task_id, NewId(store), now))

HealthCheck(p, sameTick) ==
  LET h == health_check(store, now, sameTick)
  IN Run(p, [Call("health_check", MissingId, 0, "") EXCEPT
               !.issues = h.issues, !.fixes = h.fixes],
         h)

ShowVelocity(p, goal_id) ==
  LET v == show_velocity(store, goal_id)
  IN Run(p, [Call("P1_show_velocity", MissingId, 0, goal_id) EXCEPT !.out = v.out], v)

\* The process ends; what it printed and what it appended are history.
ProcessExit(p) ==
  /\ pc[p] = "done"
  /\ pc' = [pc EXCEPT ![p] = "idle"]
  /\ cur' = [cur EXCEPT ![p] = NoCall]
  /\ events' = [events EXCEPT ![p] = <<>>]
  /\ result' = [result EXCEPT ![p] = "none"]
  /\ wal' = [wal EXCEPT ![p] = <<>>]
  /\ UNCHANGED <<store, now, ops>>

\* A day passes between two invocations.
Tick ==
  /\ Idle
  /\ now < MaxNow
  /\ now' = now + 1
  /\ UNCHANGED <<store, wal, pc, cur, events, result, ops>>

Next ==
  \/ \E p \in Procs, id \in TaskIdInputs, pr \in ProgressInputs : SetProgress1(p, id, pr)
  \/ \E p \in Procs, id \in TaskIdInputs, pr \in ProgressInputs : SetProgress2(p, id, pr)
  \/ \E p \in Procs, id \in TaskIdInputs, m \in MinutesInputs : LogTime1(p, id, m)
  \/ \E p \in Procs, id \in TaskIdInputs, m \in MinutesInputs : LogTime2(p, id, m)
  \/ \E p \in Procs, id \in TaskIdInputs, r \in ReasonInputs : MarkBlocked1(p, id, r)
  \/ \E p \in Procs, id \in TaskIdInputs, r \in ReasonInputs : MarkBlocked2(p, id, r)
  \/ \E p \in Procs, id \in TaskIdInputs : Unblock(p, id)
  \/ \E p \in Procs, g \in GoalInputs, r \in RecurringInputs, e \in EstimateInputs :
       CreateRecurring(p, g, r, e)
  \/ \E p \in Procs, id \in TaskIdInputs : AdvanceRecurring(p, id)
  \/ \E p \in Procs, same \in BOOLEAN : HealthCheck(p, same)
  \/ \E p \in Procs : ProcessExit(p)
  \/ Tick

Spec == Init /\ [][Next]_vars

\* ------------------------------------------- recurring tasks of every kind
\* Stores holding one task that has reached or not reached 100%, of every
\* recurrence value the code distinguishes: key absent, null, "none" and the
\* four choices of create-recurring; and the orphaned recurring task (no
\* goal) that the health check clears to null.
RecurringKinds == {"daily", "weekly", "monthly", "after_completion", "none", None}

RecurringTasks ==
  { Goal1Task([status |-> "in_progress", progress |-> pr, recurring |-> r]) :
      pr \in {50, 100}, r \in RecurringKinds }
    \cup { Goal1Task([status |-> "in_progress", progress |-> pr]) : pr \in {50, 100} }
    \cup { [id |-> 1, goal_id |-> None, status |-> "in_progress", progress |-> 100,
            recurring |-> "daily"] }

InitRecurring ==
  /\ store \in { Blob("ok", GoalIds, <<t>>) : t \in RecurringTasks }
  /\ wal = [p \in Procs |-> <<>>]
  /\ pc = [p \in Procs |-> "idle"]
  /\ cur = [p \in Procs |-> NoCall]
  /\ events = [p \in Procs |-> <<>>]
  /\ result = [p \in Procs |-> "none"]
  /\ now = 0
  /\ ops = 0

NextRecurring ==
  \/ \E p \in Procs, id \in TaskIdInputs : AdvanceRecurring(p, id)
  \/ \E p \in Procs, same \in BOOLEAN : HealthCheck(p, same)
  \/ \E p \in Procs : ProcessExit(p)
  \/ Tick

SpecRecurring == InitRecurring /\ [][NextRecurring]_vars

\* --------------------------------------------- stores for the health check
\* A stored task built from optional fields: each option is {} (key absent)
\* or {v}.
MaybePut(t, k, opt) == IF opt = {} THEN t ELSE Put(t, k, CHOOSE v \in opt : TRUE)

FutureDay == MaxNow + 1

HealthTimes ==
  { [actual |-> {}, estimate |-> {}], [actual |-> {11}, estimate |-> {1}],
    [actual |-> {11}, estimate |-> {}], [actual |-> {11}, estimate |-> {0}] }

\* Every combination of the fields the five checks read, sound or broken.
HealthTasks(id) ==
  { MaybePut(MaybePut(MaybePut(MaybePut(MaybePut(
      [id |-> id, goal_id |-> goal, status |-> st],
      "progress", pr), "completed_at", ca), "recurring", rec),
      "actual_minutes", tm.actual), "estimate_minutes", tm.estimate) :
      goal \in {"g1", None}, st \in {"pending", "completed"},
      pr \in {{}, {40}, {100}}, ca \in {{}, {0}, {FutureDay}},
      rec \in {{}, {"daily"}}, tm \in HealthTimes }

HealthPairTasks(id) ==
  { [id |-> id, goal_id |-> "g1", status |-> "completed", progress |-> 40],
    [id |-> id, goal_id |-> "g1", status |-> "completed", progress |-> 100,
     completed_at |-> 0],
    [id |-> id, goal_id |-> None, status |-> "pending", progress |-> 0,
     recurring |-> "daily"],
    [id |-> id, goal_id |-> "g1", status |-> "completed", progress |-> 40,
     completed_at |-> 0, actual_minutes |-> 11, estimate_minutes |-> 0] }

HealthStores ==
  { Blob("ok", GoalIds, <<t>>) : t \in HealthTasks(1) }
    \cup { Blob("ok", GoalIds, <<a, b>>) : a \in HealthPairTasks(1), b \in HealthPairTasks(2) }

InitHealth ==
  /\ store \in HealthStores
  /\ wal = [p \in Procs |-> <<>>]
  /\ pc = [p \in Procs |-> "idle"]
  /\ cur = [p \in Procs |-> NoCall]
  /\ events = [p \in Procs |-> <<>>]
  /\ result = [p \in Procs |-> "none"]
  /\ now = 0
  /\ ops = 0

NextHealth ==
  \/ \E p \in Procs, same \in BOOLEAN : HealthCheck(p, same)
  \/ \E p \in Procs : ProcessExit(p)
  \/ Tick

SpecHealth == InitHealth /\ [][NextHealth]_vars

\* ------------------------------------------------ concurrent invocations
\* Two processes run phase-2 handlers on the same data/tasks.json with no
\* lock.  Each handler is split where another process can run: after
\* load_data (the data is then in the process's memory: cur[p].pre), and
\* after each file effect (the WAL append, the save).
RaceProcs == {1, 2}

\* The handler a call names, run on the blob the process loaded.
PlanOf(call, blob) ==
  IF call.op = "P2_log_time" THEN P2_log_time(blob, call.task_id, call.num, now)
  ELSE IF call.op = "P2_mark_progress"
    THEN P2_mark_progress(blob, call.task_id, call.num, now)
  ELSE P2_mark_blocked(blob, call.task_id, call.str, now)

\* Mutant: the handler works on the blob as it is when the effect is made.
RacePlan_rereads_store(p) == PlanOf(cur[p], store)

\* What process p does after its load: the handler on its in-memory data.
RacePlan(p) == PlanOf(cur[p], cur[p].pre)

RaceTasks(id) == [id |-> id, goal_id |-> "g1", status |-> "pending", progress |-> 0]

InitRace ==
  /\ store \in { Blob("ok", GoalIds, <<RaceTasks(1)>>),
                 Blob("ok", GoalIds, <<RaceTasks(1), RaceTasks(2)>>) }
  /\ wal = [p \in RaceProcs |-> <<>>]
  /\ pc = [p \in RaceProcs |-> "idle"]
  /\ cur = [p \in RaceProcs |-> NoCall]
  /\ events = [p \in RaceProcs |-> <<>>]
  /\ result = [p \in RaceProcs |-> "none"]
  /\ now = 0
  /\ ops = 0

\* The process starts and load_data reads the blob.
RaceLoad(p, call) ==
  /\ pc[p] = "idle"
  /\ ops < MaxOps
  /\ ops' = ops + 1
  /\ pc' = [pc EXCEPT ![p] = "loaded"]
  /\ cur' = [cur EXCEPT ![p] = call]
  /\ UNCHANGED <<store, wal, events, result, now>>

\* The lookup fails and the process exits with its error.
RaceFail(p) ==
  /\ pc[p] = "loaded"
  /\ RacePlan(p).err # "ok"
  /\ pc' = [pc EXCEPT ![p] = "done"]
  /\ result' = [result EXCEPT ![p] = RacePlan(p).err]
  /\ UNCHANGED <<store, wal, cur, events, now, ops>>

\* The next file effect of the handler: log_to_wal, then save_data.
RaceEffect(p) ==
  /\ pc[p] = "loaded"
  /\ RacePlan(p).err = "ok"
  /\ LET effects == RacePlan(p).effects
         k == Len(events[p]) + 1
         done == Perform(store, wal[p], <<effects[k]>>, 1)
     IN /\ store' = done.store
        /\ wal' = [wal EXCEPT ![p] = done.wal]
        /\ events' = [events EXCEPT ![p] = Append(@, effects[k].kind)]
        /\ pc' = [pc EXCEPT ![p] = IF k = Len(effects) THEN "done" ELSE "loaded"]
        /\ result' = [result EXCEPT ![p] = IF k = Len(effects) THEN "ok" ELSE @]
  /\ UNCHANGED <<cur, now, ops>>

NextRace ==
  \/ \E p \in RaceProcs, id \in TaskIdInputs, m \in MinutesInputs :
       RaceLoad(p, Call("P2_log_time", id, m, ""))
  \/ \E p \in RaceProcs, id \in TaskIdInputs :
       RaceLoad(p, Call("P2_mark_progress", id, 50, ""))
  \/ \E p \in RaceProcs, id \in TaskIdInputs, r \in ReasonInputs :
       RaceLoad(p, Call("P2_mark_blocked", id, 0, r))
  \/ \E p \in RaceProcs : RaceFail(p)
  \/ \E p \in RaceProcs : RaceEffect(p)
  \/ \E p \in RaceProcs : ProcessExit(p)

SpecRace == InitRace /\ [][NextRace]_vars

\* ------------------------------------------------- stores for show-velocity
\* Tasks of goal g1 that are open, completed on one of three days, or
\* completed with no completed_at, and a completed task of another goal.
VelocityDays == {0, 1, 2}

VelocityTasks ==
  { [goal_id |-> "g1", status |-> "pending"], [goal_id |-> "g1", status |-> "completed"],
    [goal_id |-> "g2", status |-> "completed", completed_at |-> 0] }
    \cup { [goal_id |-> "g1", status |-> "completed", completed_at |-> day] :
             day \in VelocityDays }

MaxVelocityTasks == 4

\* Four completed tasks over two dates and two open ones.
VelocityExample ==
  << [goal_id |-> "g1", status |-> "completed", completed_at |-> 0],
     [goal_id |-> "g1", status |-> "completed", completed_at |-> 0],
     [goal_id |-> "g1", status |-> "completed", completed_at |-> 1],
     [goal_id |-> "g1", status |-> "completed", completed_at |-> 1],
     [goal_id |-> "g1", status |-> "pending"], [goal_id |-> "g1", status |-> "pending"] >>

WithIds(tasks) == [i \in 1..Len(tasks) |-> Put(tasks[i], "id", i)]

VelocityStores ==
  { Blob("ok", GoalIds, WithIds(ts)) :
      ts \in UNION { [1..len -> VelocityTasks] : len \in 0..MaxVelocityTasks } }
    \cup { Blob("ok", GoalIds, WithIds(VelocityExample)) }

InitVelocity ==
  /\ store \in VelocityStores
  /\ wal = [p \in Procs |-> <<>>]
  /\ pc = [p \in Procs |-> "idle"]
  /\ cur = [p \in Procs |-> NoCall]
  /\ events = [p \in Procs |-> <<>>]
  /\ result = [p \in Procs |-> "none"]
  /\ now = 0
  /\ ops = 0

NextVelocity ==
  \/ \E p \in Procs, g \in GoalInputs : ShowVelocity(p, g)
  \/ \E p \in Procs : ProcessExit(p)

SpecVelocity == InitVelocity /\ [][NextVelocity]_vars

\* ================================================================ claims
SetProgressOps == {"P1_mark_progress", "P2_mark_progress"}
LogTimeOps == {"P1_log_time", "P2_log_time"}
MarkBlockedOps == {"P1_mark_blocked", "P2_mark_blocked"}
MutationOps ==
  SetProgressOps \cup LogTimeOps \cup MarkBlockedOps
    \cup {"P1_unblock_task", "P1_create_recurring", "P1_next_recurring"}
ValidationErrors ==
  {"TaskNotFound", "GoalNotFound", "InvalidArgument", "NotRecurring", "IncompleteTask"}

\* The event type the WAL record of an operation carries.
EventTypeOf(op) ==
  IF op \in SetProgressOps THEN "PROGRESS_CHANGE"
  ELSE IF op \in LogTimeOps THEN "TIME_LOG"
  ELSE IF op \in MarkBlockedOps THEN "STATUS_CHANGE"
  ELSE "OTHER"

Finished(p) == pc[p] = "done"
\* The task the invocation addressed, before and after (index into tasks).
PreIndex(p) == find_task_by_id(cur[p].pre, cur[p].task_id)
OnExisting(p) == cur[p].pre.kind = "ok" /\ PreIndex(p) # 0
PreTask(p) == cur[p].pre.tasks[PreIndex(p)]
PostTask(p) == store.tasks[find_task_by_id(store, cur[p].task_id)]
InSeq(x, seq) == \E i \in 1..Len(seq) : seq[i] = x

\* C1: in every task-mutating operation a WAL record is appended before the
\* store save of the same operation is attempted: no save (tried or done)
\* without an earlier WAL append in the same invocation.
C1_WalBeforeSave ==
  \A p \in Procs :
    (Finished(p) /\ cur[p].op \in MutationOps) =>
      \A i \in 1..Len(events[p]) :
        events[p][i] \in {"save", "save_failed"} =>
          \E j \in 1..(i - 1) : events[p][j] = "wal"

\* The case of C2: a mutating operation on an existing task has appended to
\* the WAL and then was interrupted before the save, or its save failed.
C2_Case(p) ==
  /\ Finished(p)
  /\ cur[p].op \in MutationOps
  /\ OnExisting(p)
  /\ InSeq("wal", events[p])
  /\ result[p] \in {"interrupted", "StoreIOFailure"}

C2_HasRecord(p) ==
  InSeq(WalRec(EventTypeOf(cur[p].op), cur[p].task_id), wal[p])

\* C2 as stated: in that case the persisted store is exactly its state before
\* the operation, and the WAL holds a record with the operation's event type
\* and task id.
C2_StoreIntactOnFailure ==
  \A p \in Procs : C2_Case(p) => store = cur[p].pre /\ C2_HasRecord(p)

\* C2 amended: the WAL holds the record in every such case; the store is
\* exactly its state before the operation when the run was interrupted before
\* the save or the save failed without opening the blob; a save that fails
\* after opening the blob for writing leaves it truncated.
C2_Amended ==
  \A p \in Procs :
    C2_Case(p) =>
      /\ C2_HasRecord(p)
      /\ result[p] = "interrupted" => store = cur[p].pre
      /\ result[p] = "StoreIOFailure" =>
           \/ store = cur[p].pre
           \/ store.kind = "corrupt"

C2_Witness ==
  \E p \in Procs : C2_Case(p) /\ result[p] = "interrupted" /\ cur[p].op = "P2_log_time"

\* C3: an operation that fails a lookup or a validation leaves the store and
\* the WAL as they were: it has written nothing.
C3_FailureWritesNothing ==
  \A p \in Procs :
    (Finished(p) /\ result[p] \in ValidationErrors) =>
      store = cur[p].pre /\ wal[p] = <<>> /\ events[p] = <<>>

C3_Witness ==
  \E p \in Procs :
    /\ Finished(p)
    /\ result[p] = "InvalidArgument"
    /\ OnExisting(p)
    /\ cur[p].op = "P1_mark_progress"

\* C4: progress outside 0..100 is rejected, so every task's progress stays
\* within 0..100 whatever SetProgress is given.
C4_ProgressInRange ==
  \A i \in 1..Len(store.tasks) :
    Has(store.tasks[i], "progress") =>
      0 <= store.tasks[i]["progress"] /\ store.tasks[i]["progress"] <= 100

\* C5: SetProgress(task, 100) on a task that was in_progress makes it
\* completed, with completed_at the current time.
C5_CompletesAt100 ==
  \A p \in Procs :
    ( /\ Finished(p) /\ result[p] = "ok"
      /\ cur[p].op \in SetProgressOps /\ cur[p].num = 100
      /\ OnExisting(p) /\ PreTask(p)["status"] = "in_progress" ) =>
      /\ PostTask(p)["status"] = "completed"
      /\ Has(PostTask(p), "completed_at")
      /\ PostTask(p)["completed_at"] = now

\* The case of C6: SetProgress(task, 100) done on a task that was pending.
C6_Case(p) ==
  /\ Finished(p) /\ result[p] = "ok"
  /\ cur[p].op \in SetProgressOps /\ cur[p].num = 100
  /\ OnExisting(p) /\ PreTask(p)["status"] = "pending"

\* C6 as stated: progress becomes 100 and the status stays pending.
C6_StatusUnchangedFromPending ==
  \A p \in Procs :
    C6_Case(p) => PostTask(p)["progress"] = 100 /\ PostTask(p)["status"] = "pending"

\* C6 amended: progress becomes 100 and the status becomes in_progress, not
\* completed.
C6_Amended ==
  \A p \in Procs :
    C6_Case(p) => PostTask(p)["progress"] = 100 /\ PostTask(p)["status"] = "in_progress"

C6_Witness == \E p \in Procs : C6_Case(p) /\ cur[p].op = "P1_mark_progress"

\* C7: every completed task has progress 100 and completed_at set.
C7_CompletedIsFull ==
  \A i \in 1..Len(store.tasks) :
    store.tasks[i]["status"] = "completed" =>
      /\ Get(store.tasks[i], "progress", 0) = 100
      /\ Has(store.tasks[i], "completed_at")

\* C8: a task has a non-null blocked_reason exactly when its status is
\* blocked.
C8_BlockedReasonIffBlocked ==
  \A i \in 1..Len(store.tasks) :
    (Has(store.tasks[i], "blocked_reason") /\ store.tasks[i]["blocked_reason"] # None)
      <=> store.tasks[i]["status"] = "blocked"

\* C9: completed is terminal: a task that was completed when an operation
\* loaded the store is still completed after it.
C9_CompletedIsTerminal ==
  \A p \in Procs :
    (Finished(p) /\ store.kind = "ok" /\ cur[p].pre.kind = "ok") =>
      \A i \in 1..Len(cur[p].pre.tasks) :
        cur[p].pre.tasks[i]["status"] = "completed" =>
          store.tasks[i]["status"] = "completed"

\* C10: AdvanceRecurring on a recurring task with progress < 100 is rejected
\* and changes nothing; when it succeeds the list has grown by exactly one
\* task, pending with progress 0, the original is completed with progress
\* 100, the other tasks are as they were, and one save wrote both.
IsRecurring(t) == Has(t, "recurring") /\ t["recurring"] # "none" /\ t["recurring"] # None

C10_AdvanceRecurring ==
  \A p \in Procs :
    (Finished(p) /\ cur[p].op = "P1_next_recurring") =>
      /\ ( /\ OnExisting(p) /\ IsRecurring(PreTask(p))
           /\ Get(PreTask(p), "progress", 0) < 100 ) =>
           /\ result[p] = "IncompleteTask"
           /\ store = cur[p].pre
      /\ result[p] = "ok" =>
           LET pre == cur[p].pre.tasks
               i == PreIndex(p)
               n == Len(pre)
           IN /\ Get(pre[i], "progress", 0) >= 100
              /\ Len(store.tasks) = n + 1
              /\ store.tasks[n + 1]["progress"] = 0
              /\ store.tasks[n + 1]["status"] = "pending"
              /\ \A j \in 1..n : store.tasks[n + 1]["id"] # pre[j]["id"]
              /\ store.tasks[i]["status"] = "completed"
              /\ store.tasks[i]["progress"] = 100
              /\ \A j \in (1..n) \ {i} : store.tasks[j] = pre[j]
              /\ events[p] = <<"save">>

C10_Witness ==
  \E p \in Procs :
    /\ Finished(p) /\ cur[p].op = "P1_next_recurring" /\ result[p] = "ok"
    /\ Len(store.tasks) = Len(cur[p].pre.tasks) + 1


\* C11: AdvanceRecurring on a task whose recurring field is absent, null or
\* "none" fails with NotRecurring, and the store is left as it was (no
\* successor).
C11_NotRecurringRejected ==
  \A p \in Procs :
    ( /\ Finished(p) /\ cur[p].op = "P1_next_recurring"
      /\ OnExisting(p) /\ ~IsRecurring(PreTask(p)) ) =>
      result[p] = "NotRecurring" /\ store = cur[p].pre

\* C12: the successor's next_due_at is the time of the operation plus 1 day
\* for daily, 7 days for weekly, 30 days for monthly, and the time of the
\* operation itself for any other value.
C12_Delta(recurring) ==
  IF recurring = "daily" THEN 1
  ELSE IF recurring = "weekly" THEN 7
  ELSE IF recurring = "monthly" THEN 30
  ELSE 0

C12_NextDueAt ==
  \A p \in Procs :
    (Finished(p) /\ cur[p].op = "P1_next_recurring" /\ result[p] = "ok") =>
      LET succ == store.tasks[Len(store.tasks)]
      IN /\ succ["id"] = cur[p].num
         /\ succ["next_due_at"] = now + C12_Delta(PreTask(p)["recurring"])

C12_Witness ==
  \E p \in Procs :
    /\ Finished(p) /\ cur[p].op = "P1_next_recurring" /\ result[p] = "ok"
    /\ PreTask(p)["recurring"] = "monthly"
    /\ now > 0

\* The task update of the log_time that invocation p ran.
TimeUpdateOf(op, t, minutes) ==
  IF op = "P1_log_time" THEN P1_time_update(t, minutes) ELSE P2_time_update(t, minutes)

LogTimeDone(p) ==
  /\ Finished(p) /\ result[p] = "ok"
  /\ cur[p].op \in LogTimeOps
  /\ OnExisting(p)

C13_Minutes == {-22, -11, 0, 11, 22}

\* C13: LogTime is additive: after logging m1, logging any m2 gives the
\* actual_minutes that logging m1 + m2 once gives from the state before.
C13_LogTimeAdditive ==
  \A p \in Procs :
    LogTimeDone(p) =>
      \A m2 \in C13_Minutes :
        TimeUpdateOf(cur[p].op, PostTask(p), m2)["actual_minutes"]
          = TimeUpdateOf(cur[p].op, PreTask(p), cur[p].num + m2)["actual_minutes"]

C13_Witness ==
  \E p \in Procs :
    /\ LogTimeDone(p) /\ cur[p].op = "P2_log_time"
    /\ ~Has(PreTask(p), "actual_minutes")
    /\ cur[p].num < 0
    /\ PostTask(p)["actual_minutes"] = cur[p].num

\* C14: LogTime moves a pending task whose new total is above zero to
\* in_progress, and leaves the status as it was in every other case.
C14_LogTimeStatus ==
  \A p \in Procs :
    LogTimeDone(p) =>
      PostTask(p)["status"] =
        IF PreTask(p)["status"] = "pending" /\ PostTask(p)["actual_minutes"] > 0
          THEN "in_progress"
          ELSE PreTask(p)["status"]

\* C15: after a LogTime on a task whose estimate_minutes is above zero, the
\* stored time_variance_percent is (actual - estimate) / estimate * 100
\* rounded to one decimal, for the new actual_minutes.
C15_VarianceFresh ==
  \A p \in Procs :
    ( /\ LogTimeDone(p)
      /\ Has(PostTask(p), "estimate_minutes")
      /\ PostTask(p)["estimate_minutes"] > 0 ) =>
      /\ Has(PostTask(p), "time_variance_percent")
      /\ PostTask(p)["time_variance_percent"] =
           RoundTenths(PostTask(p)["actual_minutes"] - PostTask(p)["estimate_minutes"],
                       PostTask(p)["estimate_minutes"])

HealthDone(p) ==
  /\ Finished(p) /\ result[p] = "ok"
  /\ cur[p].op = "health_check"

Count(x, seq) == Cardinality({k \in 1..Len(seq) : seq[k] = x})

\* C16: the health check is idempotent: right after a health check has run,
\* a second run, at the same clock reading or any later one, lists no fix
\* and saves nothing.
SecondRun(n2, same) == health_check(store, n2, same)

C16_HealthIdempotent ==
  \A p \in Procs :
    HealthDone(p) =>
      \A n2 \in now..MaxNow, same \in BOOLEAN :
        /\ SecondRun(n2, same).err = "ok"
        /\ SecondRun(n2, same).fixes = <<>>
        /\ \A k \in 1..Len(SecondRun(n2, same).effects) :
             SecondRun(n2, same).effects[k].kind # "save"

C16_Witness ==
  \E p \in Procs :
    /\ HealthDone(p)
    /\ InSeq("save", events[p])
    /\ Len(cur[p].fixes) >= 2
    /\ \E id \in {1, 2} : InSeq(<<"bad_date", id>>, cur[p].fixes)

\* C17: a completed task with progress below 100 has progress 100 after
\* one health scan, and is named once in the issues and once in the fixes
\* for that violation.
C17_ImpossibleStateRepaired ==
  \A p \in Procs :
    HealthDone(p) =>
      \A i \in 1..Len(cur[p].pre.tasks) :
        LET t == cur[p].pre.tasks[i]
        IN ( /\ t["status"] = "completed"
             /\ Has(t, "progress")
             /\ t["progress"] < 100 ) =>
             /\ store.tasks[i]["progress"] = 100
             /\ Count(<<"impossible", t["id"]>>, cur[p].issues) = 1
             /\ Count(<<"impossible", t["id"]>>, cur[p].fixes) = 1

C17_Witness ==
  \E p \in Procs :
    /\ HealthDone(p)
    /\ Len(cur[p].pre.tasks) = 2
    /\ cur[p].pre.tasks[2]["status"] = "completed"
    /\ cur[p].pre.tasks[2]["progress"] = 40
    /\ store.tasks[2]["progress"] = 100

\* The blob process p means to write: its handler on the blob it loaded.
SavedBy(p) == save_data(PlanOf(cur[p], cur[p].pre).effects[2].data)

BothSucceeded ==
  \A p \in RaceProcs : Finished(p) /\ result[p] = "ok"

\* C18: two concurrent invocations can lose an update.  Whenever both have
\* reported success, the store is the whole blob one of them computed from
\* its own load (the last save wins) and the WAL holds the record of each;
\* the witness is the interleaving in which the other's change is gone.
C18_LastSaveWins ==
  BothSucceeded =>
    /\ \E q \in RaceProcs : store = SavedBy(q)
    /\ \A p \in RaceProcs : C2_HasRecord(p)

C18_Witness ==
  /\ BothSucceeded
  /\ cur[1].op = "P2_log_time" /\ cur[2].op = "P2_log_time"
  /\ cur[1].task_id # cur[2].task_id
  /\ cur[1].pre = cur[2].pre
  /\ SavedBy(1).tasks[PreIndex(1)] # PreTask(1)
  /\ store = SavedBy(2)
  /\ PostTask(1) = PreTask(1)
  /\ \A p \in RaceProcs : C2_HasRecord(p)

\* Every task the invocation found in the blob is still in the store, at its
\* place and under its id.
IdsKept(p) ==
  \A i \in 1..Len(cur[p].pre.tasks) :
    /\ i <= Len(store.tasks)
    /\ store.tasks[i]["id"] = cur[p].pre.tasks[i]["id"]

\* C19 as stated: no operation of a sequential run ever removes a task id
\* from the persisted store or changes one.
C19_NoTaskDeleted ==
  \A p \in Procs : Finished(p) => IdsKept(p)

\* C19 amended: every operation keeps the ids, unless its save fails after
\* the blob was opened for writing: the blob is then truncated and holds no
\* task at all.
C19_Amended ==
  \A p \in Procs :
    Finished(p) =>
      \/ IdsKept(p)
      \/ /\ store.kind = "corrupt"
         /\ result[p] = "StoreIOFailure"
         /\ InSeq("save_failed", events[p])

C19_Witness ==
  \E p \in Procs :
    /\ Finished(p) /\ result[p] = "ok"
    /\ InSeq("save", events[p])
    /\ cur[p].op \in {"P1_create_recurring", "P1_next_recurring", "health_check"}
    /\ Len(cur[p].pre.tasks) >= 1
    /\ store # cur[p].pre
    /\ IdsKept(p)

\* The counts of goal g over the blob the invocation loaded.
CompletedOf(p, g) ==
  {i \in 1..Len(cur[p].pre.tasks) :
     cur[p].pre.tasks[i]["goal_id"] = g /\ cur[p].pre.tasks[i]["status"] = "completed"}
RemainingOf(p, g) ==
  {i \in 1..Len(cur[p].pre.tasks) :
     cur[p].pre.tasks[i]["goal_id"] = g /\ cur[p].pre.tasks[i]["status"] # "completed"}
DatesOf(p, g) ==
  {cur[p].pre.tasks[i]["completed_at"] :
     i \in {j \in CompletedOf(p, g) : Has(cur[p].pre.tasks[j], "completed_at")}}

VelocityDone(p) ==
  /\ Finished(p) /\ result[p] = "ok"
  /\ cur[p].op = "P1_show_velocity"

Dist(a, b) == IF a >= b THEN a - b ELSE b - a

\* C20 as stated: the velocity reported (hundredths) is exactly completed /
\* dates when there is a date, else 0; the estimate reported (tenths) is
\* exactly remaining / velocity when velocity > 0, else 0; the store is not
\* modified.
C20_VelocityExact ==
  \A p \in Procs :
    VelocityDone(p) =>
      LET c == Cardinality(CompletedOf(p, cur[p].str))
          d == Cardinality(DatesOf(p, cur[p].str))
          r == Cardinality(RemainingOf(p, cur[p].str))
      IN /\ store = cur[p].pre
         /\ d = 0 => /\ cur[p].out.velocity_tasks_per_day = 0
                     /\ cur[p].out.estimated_days_to_completion = 0
         /\ d > 0 => /\ cur[p].out.velocity_tasks_per_day * d = 100 * c
                     /\ cur[p].out.estimated_days_to_completion * c = 10 * r * d

\* C20 amended: the values reported are those quotients rounded, the
\* velocity to two decimals and the estimate (from the unrounded velocity)
\* to one decimal: each is within half a unit of its last digit.
C20_Amended ==
  \A p \in Procs :
    VelocityDone(p) =>
      LET c == Cardinality(CompletedOf(p, cur[p].str))
          d == Cardinality(DatesOf(p, cur[p].str))
          r == Cardinality(RemainingOf(p, cur[p].str))
      IN /\ store = cur[p].pre
         /\ events[p] = <<>>
         /\ d = 0 => /\ cur[p].out.velocity_tasks_per_day = 0
                     /\ cur[p].out.estimated_days_to_completion = 0
         /\ d > 0 => /\ 2 * Dist(cur[p].out.velocity_tasks_per_day * d, 100 * c) <= d
                     /\ 2 * Dist(cur[p].out.estimated_days_to_completion * c, 10 * r * d) <= c

C20_Witness ==
  \E p \in Procs :
    /\ VelocityDone(p)
    /\ Cardinality(CompletedOf(p, cur[p].str)) = 4
    /\ Cardinality(DatesOf(p, cur[p].str)) = 2
    /\ Cardinality(RemainingOf(p, cur[p].str)) = 2
    /\ cur[p].out.velocity_tasks_per_day = 200
    /\ cur[p].out.estimated_days_to_completion = 10

\* C21: the health check appends its HEALTH_CHECK record before the save
\* that persists its fixes: no save is made or tried without an earlier
\* append, so repaired tasks are never in the store while the WAL holds no
\* HEALTH_CHECK record of the run.
C21_HealthWalBeforeSave ==
  \A p \in Procs :
    (Finished(p) /\ cur[p].op = "health_check") =>
      /\ \A i \in 1..Len(events[p]) :
           events[p][i] \in {"save", "save_failed"} =>
             \E j \in 1..(i - 1) : events[p][j] = "wal"
      /\ (store.kind = "ok" /\ store # cur[p].pre) =>
           InSeq(WalRec("HEALTH_CHECK", MissingId), wal[p])

\* The hard invariants of the data model, for one task at time n.
TaskInvariants(t, n) ==
  /\ Has(t, "progress") => (0 <= t["progress"] /\ t["progress"] <= 100)
  /\ t["status"] = "completed" =>
       /\ Has(t, "progress") /\ t["progress"] = 100
       /\ Has(t, "completed_at") /\ t["completed_at"] <= n
  /\ t["status"] = "blocked" <=> Truthy(t, "blocked_reason")
  /\ Truthy(t, "recurring") => Truthy(t, "goal_id")

\* C22: right after a health check has completed, every task of the store
\* satisfies the hard invariants of the data model.
C22_HealthRestoresInvariants ==
  \A p \in Procs :
    HealthDone(p) =>
      \A i \in 1..Len(store.tasks) : TaskInvariants(store.tasks[i], now)

\* C23: loading never fails: on an absent, malformed or unparseable blob
\* the load gives the empty default and the operation goes on to its own
\* outcome (here a failed lookup), the blob left as it was.
C23_LoadNeverFails ==
  \A p \in Procs :
    (Finished(p) /\ cur[p].pre.kind \in {"absent", "malformed", "corrupt"}) =>
      /\ result[p] # "LoadError"
      /\ events[p] = <<>> => store = cur[p].pre

\* C24: the health check runs to completion on every store of conforming
\* tasks, a task with estimate_minutes 0 and actual_minutes above 0
\* included: unless the process is killed or its save fails, the run
\* succeeds, its fixes are in the store and the HEALTH_CHECK record is in
\* the WAL.
C24_HealthCompletes ==
  \A p \in Procs :
    ( /\ Finished(p) /\ cur[p].op = "health_check"
      /\ cur[p].pre.kind = "ok"
      /\ \A i \in 1..Len(cur[p].pre.tasks) : TaskInvariants(cur[p].pre.tasks[i], now)
      /\ result[p] \notin {"interrupted", "StoreIOFailure"} ) =>
      /\ result[p] = "ok"
      /\ InSeq(WalRec("HEALTH_CHECK", MissingId), wal[p])
      /\ cur[p].fixes # <<>> => InSeq("save", events[p])

\* C25: an occurrence has at most one successor: AdvanceRecurring on a task
\* that an earlier AdvanceRecurring has completed adds no task and leaves
\* its completed_at as it was.
C25_AtMostOneSuccessor ==
  \A p \in Procs :
    ( /\ Finished(p) /\ cur[p].op = "P1_next_recurring"
      /\ OnExisting(p)
      /\ IsRecurring(PreTask(p)) /\ Truthy(PreTask(p), "goal_id")
      /\ PreTask(p)["status"] = "completed"
      /\ store.kind = "ok" ) =>
      /\ Len(store.tasks) = Len(cur[p].pre.tasks)
      /\ PostTask(p)["completed_at"] = PreTask(p)["completed_at"]

====
